---- MODULE Spec2Model ----
(***************************************************************************)
(* Model of the JNI boundary of the water-meter OCR pipeline               *)
(* (android/src/main/cpp/paddle_ocr_jni.cpp): nativeInit,                  *)
(* nativeDetectText, nativeRecognizeText and nativeDispose, the objects    *)
(* they allocate on the native heap, and the two pure computations they    *)
(* contain (bitmap -> CHW tensor, detection tensor -> float[][]).          *)
(*                                                                         *)
(* Numeric conventions.  A float produced by "byte / 255.0f" is the pair   *)
(* <<byte, 255>> (numerator, denominator).  The floats of a detection      *)
(* output tensor are integers in units of 1/10000, so 0.5f is 5000 and     *)
(* 0.5001 is 5001.  A Java/C++ string is the sequence of its characters.   *)
(***************************************************************************)
EXTENDS Integers, Sequences, FiniteSets, TLC

\* ---- bounds of the model ------------------------------------------------
MaxInits == 2      \* OCRHandle aggregates the allocator can hand out
MaxDim == 2        \* largest bitmap width and height
MaxN == 2          \* largest number of rows of a detection tensor

\* ---- program constants --------------------------------------------------
Threshold == 5000  \* 0.5f, in units of 1/10000

VARIABLES
    heap,       \* native heap: address -> OCRHandle aggregate and its sessions
    handles,    \* the non-zero jlong values nativeInit has returned
    crashed,    \* the process died (outcome of undefined behaviour)
    last,       \* the most recent boundary call and what it did
    encImg,     \* encoder check: the bitmap
    encOut,     \* encoder check: the tensor built from encImg
    decIn,      \* decoder check: the detection output tensor
    decOut      \* decoder check: the float[][] decoded from decIn

vars == <<heap, handles, crashed, last, encImg, encOut, decIn, decOut>>
life == <<heap, handles, crashed, last>>
pure == <<encImg, encOut, decIn, decOut>>

\* ---- the native heap ----------------------------------------------------
Addrs == 1..MaxInits

\* struct OCRHandle: the aggregate and its three Ort::Session pointers.
\* agg: "none" (never allocated), "alloc", "freed".
\* det/cls/rec: "none" (null pointer), "loaded", "freed".
OCRHandle == [agg : {"none", "alloc", "freed"},
              det : {"none", "loaded", "freed"},
              cls : {"none", "loaded", "freed"},
              rec : {"none", "loaded", "freed"}]

NoObj == [agg |-> "none", det |-> "none", cls |-> "none", rec |-> "none"]

NoOut == [shape |-> <<>>, data |-> <<>>]

\* What one boundary call did.
Call(op, arg, live, status, ret, value, events, locked, short, oob, uaf, out, fail, addr) ==
    [op |-> op, arg |-> arg, live |-> live, status |-> status, ret |-> ret,
     value |-> value, events |-> events, locked |-> locked, short |-> short,
     oob |-> oob, uaf |-> uaf, out |-> out, fail |-> fail, addr |-> addr]

NoCall == Call("none", 0, FALSE, "void", 0, <<>>, <<>>, FALSE, FALSE, FALSE, FALSE, NoOut, "none", 0)

\* ---- nativeInit ---------------------------------------------------------
LoadFailures == {"none", "det", "cls", "rec"}

\* new OCRHandle() followed by the three "new Ort::Session" in order; the
\* constructor that throws stops the sequence.
LoadSessions(failAt) ==
    [agg |-> "alloc",
     det |-> IF failAt = "det" THEN "none" ELSE "loaded",
     cls |-> IF failAt \in {"det", "cls"} THEN "none" ELSE "loaded",
     rec |-> IF failAt = "none" THEN "loaded" ELSE "none"]

\* What the catch block of nativeInit does to the aggregate built so far:
\* it logs, releases the three path strings and returns; nothing is deleted.
InitCatch(obj) == obj

InitResult_partial(addr, failAt) == IF failAt \in {"none", "cls"} THEN addr ELSE 0

\* return reinterpret_cast<jlong>(handle) at the end of the try block,
\* return 0 from the catch block.
InitResult(addr, failAt) == IF failAt = "none" THEN addr ELSE 0

nativeInit ==
    /\ ~crashed
    /\ \E a \in Addrs :
        /\ heap[a].agg = "none"
        /\ \A b \in Addrs : b < a => heap[b].agg # "none"
        /\ \E failAt \in LoadFailures :
            LET built == LoadSessions(failAt)
                obj == IF failAt = "none" THEN built ELSE InitCatch(built)
                r == InitResult(a, failAt)
            IN /\ heap' = [heap EXCEPT ![a] = obj]
               /\ handles' = handles \cup ({r} \ {0})
               /\ last' = Call("init", 0, FALSE, IF r = 0 THEN "null" ELSE "ok", r,
                               <<>>, <<>>, FALSE, FALSE, FALSE, FALSE, NoOut, failAt, a)
    /\ UNCHANGED <<crashed, pure>>

\* ---- nativeDispose ------------------------------------------------------
\* delete of one session pointer: deleting a null pointer does nothing.
DeleteSession(s) == IF s = "none" THEN "none" ELSE "freed"

DeleteHandle(obj) ==
    [agg |-> "freed", det |-> DeleteSession(obj.det),
     cls |-> DeleteSession(obj.cls), rec |-> DeleteSession(obj.rec)]

nativeDispose ==
    /\ ~crashed
    /\ \E h \in {0} \cup handles :
        IF h = 0
        THEN /\ last' = Call("dispose", 0, FALSE, "void", 0, <<>>, <<>>, FALSE,
                             FALSE, FALSE, FALSE, NoOut, "none", 0)
             /\ UNCHANGED <<heap, crashed>>
        ELSE IF heap[h].agg = "alloc"
        THEN /\ heap' = [heap EXCEPT ![h] = DeleteHandle(heap[h])]
             /\ last' = Call("dispose", h, TRUE, "void", 0, <<>>, <<>>, FALSE,
                             FALSE, FALSE, FALSE, NoOut, "none", 0)
             /\ UNCHANGED crashed
        ELSE \* h was deleted before: reading h->detSession and deleting again
             \* is undefined; the process dies or the heap looks untouched.
             \E dies \in BOOLEAN :
                /\ crashed' = dies
                /\ last' = Call("dispose", h, FALSE, IF dies THEN "crash" ELSE "void",
                                0, <<>>, <<>>, FALSE, FALSE, FALSE, TRUE, NoOut, "none", 0)
                /\ UNCHANGED heap
    /\ UNCHANGED <<handles, pure>>

\* ---- the caller's bitmap ------------------------------------------------
\* A bitmap as the handlers see it: info.width, info.height and the number of
\* 32-bit words the pixel buffer really holds (fewer than w*h for a 16-bit or
\* 8-bit format).
Bitmaps == [w : 0..MaxDim, h : 0..MaxDim, words : 0..(MaxDim * MaxDim)]

\* The indices y * width + x the nested loops read from rgbaPixels.
ReadIndices(w, h) == {y * w + x : y \in 0..(h - 1), x \in 0..(w - 1)}

\* What locking and reading one bitmap amounts to: whether lockPixels
\* succeeded, whether the buffer obtained is smaller than w*h words (no buffer
\* at all when the lock failed), and whether the loops read past its end.
PixelCase(bm, lockOk) ==
    LET avail == IF lockOk THEN bm.words ELSE 0
    IN [lockOk |-> lockOk,
        short |-> avail < bm.w * bm.h,
        oob |-> \E i \in ReadIndices(bm.w, bm.h) : i >= avail]

PixelCases == {PixelCase(bm, l) : bm \in Bitmaps, l \in BOOLEAN}

\* AndroidBitmap_lockPixels, then the std::vector<float> allocation.
LockEvents(px) == <<IF px.lockOk THEN "lock" ELSE "lockFail", "alloc">>

\* The read loops, AndroidBitmap_unlockPixels, then Session::Run.
EncodeEvents(px) == LockEvents(px) \o <<"read", "unlock", "run">>

\* ---- detection decoder ----------------------------------------------------
\* The inner push_back loop: row i of the flat buffer, featDim values.
Detection(data, i, featDim) == [j \in 1..featDim |-> data[i * featDim + (j - 1) + 1]]

PassesThreshold_ge(detection) == Len(detection) > 8 /\ detection[9] >= Threshold

\* detection.size() > 8 && detection[8] > 0.5f
PassesThreshold(detection) == Len(detection) > 8 /\ detection[9] > Threshold

RECURSIVE DetLoop(_, _, _, _, _)
DetLoop(data, numDets, featDim, i, dets) ==
    IF i >= numDets THEN dets
    ELSE LET detection == Detection(data, i, featDim)
         IN DetLoop(data, numDets, featDim, i + 1,
                    IF PassesThreshold(detection) THEN Append(dets, detection) ELSE dets)

\* if (outputShape.size() >= 3) { numDets = shape[1]; featDim = shape[2]; ... }
ParseDetections(out) ==
    IF Len(out.shape) >= 3
    THEN DetLoop(out.data, out.shape[2], out.shape[3], 0, <<>>)
    ELSE <<>>

\* NewObjectArray / NewFloatArray / SetFloatArrayRegion: the Java float[][].
ToFloatArrays(dets) == [i \in 1..Len(dets) |-> [j \in 1..Len(dets[i]) |-> dets[i][j]]]

\* Detection output tensors.  A row has featDim cells; cell 9 (0-indexed 8)
\* is the confidence, the others are geometry values that differ per column.
FeatDims == {8, 9, 10}
Confs == {4000, 5000, 5001, 9000}
Bases == {100, 200}

Row(featDim, base, conf) == [j \in 1..featDim |-> IF j = 9 THEN conf ELSE base + j]

Rows(featDim) == {Row(featDim, b, c) : b \in Bases, c \in Confs}

RECURSIVE Flatten(_)
Flatten(rows) == IF rows = <<>> THEN <<>> ELSE Head(rows) \o Flatten(Tail(rows))

RowSeqs(featDim) == UNION {[1..n -> Rows(featDim)] : n \in 0..MaxN}

DetOutputs ==
    UNION {{[shape |-> <<1, Len(rs), f>>, data |-> Flatten(rs)] : rs \in RowSeqs(f)} : f \in FeatDims}
    \cup {[shape |-> <<Len(rs), 9>>, data |-> Flatten(rs)] : rs \in RowSeqs(9)}
    \cup {[shape |-> <<>>, data |-> <<5001>>]}

\* The outputs the handler model draws from: no rows, a kept and a dropped
\* row, a row too narrow to carry a confidence, and two shapes of rank < 3.
SampleDetOutputs ==
    {[shape |-> <<1, 0, 9>>, data |-> <<>>],
     [shape |-> <<1, 2, 9>>, data |-> Row(9, 100, 9000) \o Row(9, 200, 5000)],
     [shape |-> <<1, 1, 8>>, data |-> Row(8, 100, 9000)],
     [shape |-> <<1, 9>>, data |-> Row(9, 100, 9000)],
     [shape |-> <<>>, data |-> <<5001>>]}

\* ---- nativeDetectText ---------------------------------------------------
\* The input tensor is a local of the call, handed to Session::Run (an opaque
\* function whose result is any output tensor or an exception) and gone at
\* return; here the call records what locking and reading the bitmap did, and
\* SpecEncode below checks the tensor the same loops build.
AfterFailedCall_release(hp, h) == [hp EXCEPT ![h] = DeleteHandle(hp[h])]

\* The catch blocks of nativeDetectText and nativeRecognizeText: log and
\* return nullptr; the handle and its sessions are not touched.
AfterFailedCall(hp, h) == hp

nativeDetectText ==
    /\ ~crashed
    /\ \E h \in {0} \cup handles :
        IF h = 0
        THEN \* if (!handle) return nullptr;
             /\ last' = Call("detect", 0, FALSE, "null", 0, <<>>, <<>>, FALSE,
                             FALSE, FALSE, FALSE, NoOut, "handle", 0)
             /\ UNCHANGED <<heap, crashed>>
        ELSE \E px \in PixelCases :
             LET live == heap[h].agg = "alloc"
                 stale == heap[h].det # "loaded"
                 freed == heap[h].agg = "freed"
             IN \/ \* std::vector<float> inputTensor(3*height*width) throws
                   /\ last' = Call("detect", h, live, "null", 0, <<>>, LockEvents(px),
                                   px.lockOk, px.short, FALSE, FALSE, NoOut, "alloc", 0)
                   /\ heap' = AfterFailedCall(heap, h)
                   /\ UNCHANGED crashed
                \/ \* a read past the end of the pixel buffer faults
                   /\ px.oob
                   /\ last' = Call("detect", h, live, "crash", 0, <<>>,
                                   LockEvents(px) \o <<"read">>, px.lockOk, px.short,
                                   TRUE, FALSE, NoOut, "segv", 0)
                   /\ crashed' = TRUE
                   /\ UNCHANGED heap
                \/ \* h->detSession is a deleted or null session and the use faults
                   /\ stale
                   /\ last' = Call("detect", h, live, "crash", 0, <<>>, EncodeEvents(px),
                                   FALSE, px.short, px.oob, freed, NoOut, "segv", 0)
                   /\ crashed' = TRUE
                   /\ UNCHANGED heap
                \/ \* Session::Run throws Ort::Exception
                   /\ last' = Call("detect", h, live, "null", 0, <<>>, EncodeEvents(px),
                                   FALSE, px.short, px.oob, freed, NoOut, "run", 0)
                   /\ heap' = AfterFailedCall(heap, h)
                   /\ UNCHANGED crashed
                \/ \* Session::Run returns an output tensor, which is decoded
                   \E out \in SampleDetOutputs :
                      /\ last' = Call("detect", h, live, "ok", 0,
                                      ToFloatArrays(ParseDetections(out)),
                                      EncodeEvents(px) \o <<"decode">>,
                                      FALSE, px.short, px.oob, freed, out, "none", 0)
                      /\ UNCHANGED <<heap, crashed>>
    /\ UNCHANGED <<handles, pure>>

\* ---- nativeRecognizeText ------------------------------------------------
\* Recognition output tensors: the shape and, per timestep, the index of the
\* highest-probability symbol.
SampleRecOutputs ==
    {[shape |-> <<1, 7, 8>>, data |-> <<4, 4, 0, 7, 7, 7, 1>>],
     [shape |-> <<1, 2, 8>>, data |-> <<3, 0>>],
     [shape |-> <<1, 0, 8>>, data |-> <<>>],
     [shape |-> <<>>, data |-> <<5>>],
     [shape |-> <<1, 1, 2, 8>>, data |-> <<2, 2>>]}

\* std::string result = "123456";
RecognizeResult(out) == <<"1", "2", "3", "4", "5", "6">>

nativeRecognizeText ==
    /\ ~crashed
    /\ \E h \in {0} \cup handles :
        IF h = 0
        THEN /\ last' = Call("recognize", 0, FALSE, "null", 0, <<>>, <<>>, FALSE,
                             FALSE, FALSE, FALSE, NoOut, "handle", 0)
             /\ UNCHANGED <<heap, crashed>>
        ELSE \E px \in PixelCases :
             LET live == heap[h].agg = "alloc"
                 stale == heap[h].rec # "loaded"
                 freed == heap[h].agg = "freed"
             IN \/ /\ last' = Call("recognize", h, live, "null", 0, <<>>, LockEvents(px),
                                   px.lockOk, px.short, FALSE, FALSE, NoOut, "alloc", 0)
                   /\ heap' = AfterFailedCall(heap, h)
                   /\ UNCHANGED crashed
                \/ /\ px.oob
                   /\ last' = Call("recognize", h, live, "crash", 0, <<>>,
                                   LockEvents(px) \o <<"read">>, px.lockOk, px.short,
                                   TRUE, FALSE, NoOut, "segv", 0)
                   /\ crashed' = TRUE
                   /\ UNCHANGED heap
                \/ /\ stale
                   /\ last' = Call("recognize", h, live, "crash", 0, <<>>, EncodeEvents(px),
                                   FALSE, px.short, px.oob, freed, NoOut, "segv", 0)
                   /\ crashed' = TRUE
                   /\ UNCHANGED heap
                \/ /\ last' = Call("recognize", h, live, "null", 0, <<>>, EncodeEvents(px),
                                   FALSE, px.short, px.oob, freed, NoOut, "run", 0)
                   /\ heap' = AfterFailedCall(heap, h)
                   /\ UNCHANGED crashed
                \/ \E out \in SampleRecOutputs :
                      /\ last' = Call("recognize", h, live, "ok", 0, RecognizeResult(out),
                                      EncodeEvents(px) \o <<"decode">>,
                                      FALSE, px.short, px.oob, freed, out, "none", 0)
                      /\ UNCHANGED <<heap, crashed>>
    /\ UNCHANGED <<handles, pure>>

\* ---- tensor encoder ------------------------------------------------------
\* Packed 32-bit pixel words: byte 3 alpha, byte 2 red, byte 1 green, byte 0
\* blue.  0x7F102030, 0x00102030 (same colour, other alpha), 0x40FF0080; the
\* alpha bytes stay below 0x80 so that a word is below 2^31.
PixelWords == {2131763248, 1056816, 1090453632}

Images ==
    UNION {{[w |-> w, h |-> h, px |-> px] : px \in [1..(w * h) -> PixelWords]} :
           <<w, h>> \in (0..MaxDim) \X (0..MaxDim)}

\* std::vector<float> inputTensor(3 * height * width): value-initialised to 0.
ZeroTensor(w, h) == [k \in 1..(3 * h * w) |-> <<0, 255>>]

RECURSIVE DetEncodeLoop_bgr(_, _, _, _, _)
DetEncodeLoop_bgr(t, w, h, px, i) ==
    IF i >= h * w THEN t
    ELSE LET y == i \div w
             x == i % w
             pixel == px[y * w + x + 1]
             r == pixel % 256
             g == (pixel \div 256) % 256
             b == (pixel \div 65536) % 256
             idx == y * w + x
         IN DetEncodeLoop_bgr([t EXCEPT ![0 * h * w + idx + 1] = <<r, 255>>,
                                        ![1 * h * w + idx + 1] = <<g, 255>>,
                                        ![2 * h * w + idx + 1] = <<b, 255>>],
                              w, h, px, i + 1)

DetEncodeTensor_bgr(w, h, px) == DetEncodeLoop_bgr(ZeroTensor(w, h), w, h, px, 0)

\* The y/x loops of nativeDetectText, iteration i = y * width + x.
RECURSIVE DetEncodeLoop(_, _, _, _, _)
DetEncodeLoop(t, w, h, px, i) ==
    IF i >= h * w THEN t
    ELSE LET y == i \div w
             x == i % w
             pixel == px[y * w + x + 1]
             r == (pixel \div 65536) % 256
             g == (pixel \div 256) % 256
             b == pixel % 256
             idx == y * w + x
         IN DetEncodeLoop([t EXCEPT ![0 * h * w + idx + 1] = <<r, 255>>,
                                    ![1 * h * w + idx + 1] = <<g, 255>>,
                                    ![2 * h * w + idx + 1] = <<b, 255>>],
                          w, h, px, i + 1)

DetEncodeTensor(w, h, px) == DetEncodeLoop(ZeroTensor(w, h), w, h, px, 0)

\* The same loops in nativeRecognizeText.
RECURSIVE RecEncodeLoop(_, _, _, _, _)
RecEncodeLoop(t, w, h, px, i) ==
    IF i >= h * w THEN t
    ELSE LET y == i \div w
             x == i % w
             pixel == px[y * w + x + 1]
             r == (pixel \div 65536) % 256
             g == (pixel \div 256) % 256
             b == pixel % 256
             idx == y * w + x
         IN RecEncodeLoop([t EXCEPT ![0 * h * w + idx + 1] = <<r, 255>>,
                                    ![1 * h * w + idx + 1] = <<g, 255>>,
                                    ![2 * h * w + idx + 1] = <<b, 255>>],
                          w, h, px, i + 1)

RecEncodeTensor(w, h, px) == RecEncodeLoop(ZeroTensor(w, h), w, h, px, 0)

\* The encoder of each handler applied to a bitmap whose buffer holds w*h words.
DetEncode ==
    /\ encOut' = [by |-> "detect", tensor |-> DetEncodeTensor(encImg.w, encImg.h, encImg.px)]
    /\ UNCHANGED <<life, encImg, decIn, decOut>>

RecEncode ==
    /\ encOut' = [by |-> "recognize", tensor |-> RecEncodeTensor(encImg.w, encImg.h, encImg.px)]
    /\ UNCHANGED <<life, encImg, decIn, decOut>>

\* The detection decoder applied to an output tensor.
DetDecode ==
    /\ ~decOut.done
    /\ decOut' = [done |-> TRUE, value |-> ToFloatArrays(ParseDetections(decIn))]
    /\ UNCHANGED <<life, encImg, encOut, decIn>>

\* ---- specification ------------------------------------------------------
LifeInit ==
    /\ heap = [a \in Addrs |-> NoObj]
    /\ handles = {}
    /\ crashed = FALSE
    /\ last = NoCall

Init ==
    /\ LifeInit
    /\ encImg = [w |-> 0, h |-> 0, px |-> <<>>]
    /\ encOut = [by |-> "none", tensor |-> <<>>]
    /\ decIn = NoOut
    /\ decOut = [done |-> FALSE, value |-> <<>>]

Next == nativeInit \/ nativeDetectText \/ nativeRecognizeText \/ nativeDispose

Spec == Init /\ [][Next]_vars

\* The encoders alone, over every bitmap within the bounds.
EncInit ==
    /\ LifeInit
    /\ encImg \in Images
    /\ encOut = [by |-> "none", tensor |-> <<>>]
    /\ decIn = NoOut
    /\ decOut = [done |-> FALSE, value |-> <<>>]

EncNext == DetEncode \/ RecEncode

SpecEncode == EncInit /\ [][EncNext]_vars

\* The detection decoder alone, over every output tensor within the bounds.
DecInit ==
    /\ LifeInit
    /\ encImg = [w |-> 0, h |-> 0, px |-> <<>>]
    /\ encOut = [by |-> "none", tensor |-> <<>>]
    /\ decIn \in DetOutputs
    /\ decOut = [done |-> FALSE, value |-> <<>>]

DecNext == DetDecode

SpecDecode == DecInit /\ [][DecNext]_vars

\* ---- properties ---------------------------------------------------------
Calls == {"detect", "recognize"}

Sessions == {"det", "cls", "rec"}

Has(events, e) == \E i \in 1..Len(events) : events[i] = e

Count(events, e) == Cardinality({i \in 1..Len(events) : events[i] = e})

\* C1: when a model load fails during init, the sessions that init call had
\* already loaded and the aggregate it allocated are released by the time it
\* returns.
C1_FailedInitReleasesAll ==
    (last.op = "init" /\ last.fail # "none") =>
        /\ heap[last.addr].agg # "alloc"
        /\ \A s \in Sessions : heap[last.addr][s] # "loaded"

\* C2: detect or recognize called with the null handle or with a handle that
\* was already disposed returns null, runs no session and touches no released
\* object.
C2_InvalidHandleRejected ==
    (last.op \in Calls /\ ~last.live) =>
        /\ last.status = "null"
        /\ ~Has(last.events, "run")
        /\ ~last.uaf

\* C3: for an output tensor of shape (1, N, F) the detection decoder returns
\* exactly the rows with F > 8 and value 8 (0-indexed) strictly above 0.5, in
\* row order, each with its F values unchanged; a confidence of exactly 0.5 is
\* dropped and N = 0 gives the empty sequence.
C3_DecoderKeepsConfidentRows ==
    (decOut.done /\ Len(decIn.shape) = 3 /\ decIn.shape[1] = 1) =>
        LET n == decIn.shape[2]
            f == decIn.shape[3]
            rows == [i \in 1..n |-> SubSeq(decIn.data, (i - 1) * f + 1, i * f)]
            keep(r) == f > 8 /\ r[9] > 5000
        IN /\ decOut.value = SelectSeq(rows, keep)
           /\ \A k \in 1..Len(decOut.value) :
                Len(decOut.value[k]) = f /\ decOut.value[k][9] # 5000
           /\ (n = 0 => decOut.value = <<>>)

C3_Witness ==
    /\ decOut.done
    /\ decIn.shape = <<1, 2, 9>>
    /\ decIn.data[9] = 5000
    /\ decIn.data[18] = 5001
    /\ Len(decOut.value) = 1

\* C4: a detect or recognize call that returns null leaves every handle and
\* session as it was; a handle that was live at the call is still fully loaded
\* and a following detect and recognize on it can succeed.
C4_FailedCallKeepsHandle ==
    /\ [][(last'.op \in Calls /\ last'.status = "null") =>
            (heap' = heap /\ handles' = handles)]_vars
    /\ []((last.op \in Calls /\ last.status = "null" /\ last.live) =>
            /\ heap[last.arg].agg = "alloc"
            /\ \A s \in Sessions : heap[last.arg][s] = "loaded"
            /\ ENABLED (nativeDetectText /\ last'.arg = last.arg /\ last'.status = "ok")
            /\ ENABLED (nativeRecognizeText /\ last'.arg = last.arg /\ last'.status = "ok"))

C4_Witness ==
    /\ last.op \in Calls
    /\ last.status = "null"
    /\ last.live
    /\ last.fail = "run"

\* C5: the string recognize returns is the greedy decode of the per-timestep
\* best indices: repeats collapsed, blank index 0 dropped, the rest mapped
\* through the vocabulary in timestep order.
C5_RecognizeIsGreedyDecode ==
    (last.op = "recognize" /\ last.status = "ok" /\ Len(last.out.shape) = 3) =>
        LET vocabulary == <<"0", "1", "2", "3", "4", "5", "6">>
            idx == last.out.data
            kept == {t \in 1..Len(idx) : idx[t] # 0 /\ (t = 1 \/ idx[t - 1] # idx[t])}
            RECURSIVE decode(_)
            decode(t) == IF t > Len(idx) THEN <<>>
                         ELSE (IF t \in kept THEN <<vocabulary[idx[t]]>> ELSE <<>>) \o decode(t + 1)
        IN last.value = decode(1)

\* C6: an output tensor of unparseable shape (detect: rank below 3; recognize:
\* neither batch x timesteps x vocabulary nor a T-length index sequence) makes
\* the call return null, not a result value.
C6_UnparseableShapeFails ==
    /\ (last.op = "detect" /\ last.fail = "none" /\ Len(last.out.shape) < 3) =>
            last.status = "null"
    /\ (last.op = "recognize" /\ last.fail = "none"
            /\ Len(last.out.shape) \notin {1, 3}) => last.status = "null"

\* C7: for a w x h bitmap with w*h pixel words the encoder of detect and of
\* recognize yields 3*h*w elements; element p*h*w + y*w + x is byte 2 (red),
\* byte 1 (green), byte 0 (blue) of pixel (x, y) over 255 for plane p = 0, 1,
\* 2; every element lies in [0,1] and the alpha byte changes nothing.
C7_EncoderPlanarRGB ==
    (encOut.by # "none") =>
        LET w == encImg.w
            h == encImg.h
            t == encOut.tensor
            noAlpha == [i \in 1..(w * h) |-> encImg.px[i] % 16777216]
        IN /\ Len(t) = 3 * h * w
           /\ \A x \in 0..(w - 1), y \in 0..(h - 1) :
                LET p == encImg.px[y * w + x + 1]
                IN /\ t[0 * h * w + y * w + x + 1] = <<(p \div 65536) % 256, 255>>
                   /\ t[1 * h * w + y * w + x + 1] = <<(p \div 256) % 256, 255>>
                   /\ t[2 * h * w + y * w + x + 1] = <<p % 256, 255>>
           /\ \A k \in 1..Len(t) : 0 <= t[k][1] /\ t[k][1] <= t[k][2]
           /\ t = IF encOut.by = "detect" THEN DetEncodeTensor(w, h, noAlpha)
                  ELSE RecEncodeTensor(w, h, noAlpha)

C7_Witness ==
    /\ encOut.by = "detect"
    /\ encImg.w = 2
    /\ encImg.h = 2
    /\ encImg.px[2] = 2131763248
    /\ encImg.px[3] = 1090453632
    /\ encOut.tensor[3] = <<255, 255>>
    /\ encOut.tensor[11] = <<128, 255>>

\* C8: when the pixel buffer holds fewer than width x height words (or no
\* buffer was obtained) the call returns null and no word at or past the end
\* of the buffer is read.
C8_ShortBufferFails ==
    (last.op \in Calls /\ last.short) => (last.status = "null" /\ ~last.oob)

\* C9: a handle init returns is 0 or refers to an aggregate whose three
\* sessions are all loaded; init returns 0 whenever a load fails.
C9_InitAllOrNothing ==
    /\ (last.op = "init") =>
        /\ (last.fail # "none" => last.ret = 0)
        /\ (last.ret # 0 =>
                /\ heap[last.ret].agg = "alloc"
                /\ \A s \in Sessions : heap[last.ret][s] = "loaded")
    /\ \A h \in handles : \A s \in Sessions : heap[h][s] # "none"

C9_Witness ==
    /\ last.op = "init"
    /\ last.fail = "cls"
    /\ last.ret = 0
    /\ handles # {}

\* C10: a detect or recognize call that locks the pixel buffer unlocks it
\* exactly once before it returns, on every exit path, and before the session
\* is run.
C10_UnlockedOnEveryPath ==
    (last.op \in Calls /\ last.status # "crash" /\ Has(last.events, "lock")) =>
        /\ Count(last.events, "unlock") = 1
        /\ ~last.locked
        /\ \A i, j \in 1..Len(last.events) :
              (last.events[i] = "unlock" /\ last.events[j] = "run") => i < j
====
